---- MODULE Spec2Model ----
(***************************************************************************)
(* Model of src/cachers/base.js (moleculer): the abstract Cacher, its      *)
(* cache-key derivation (getParamMetaValue, defaultKeygen, _hashObj,       *)
(* _generateKeyFromObject, getCacheKey) and the middleware that wraps an   *)
(* action handler (cacherMiddleware).                                      *)
(*                                                                         *)
(* JavaScript strings are sequences of one-character strings, so that      *)
(* length, prefix and split are computed as the code computes them.        *)
(* JavaScript values are records [t |-> tag, v |-> payload]:               *)
(*   undef, null      v = <<>>                                             *)
(*   num, str, bool   v = the value's toString() as a string               *)
(*   arr              v = the sequence of element values                   *)
(*   obj              v = the sequence of <<key, value>> pairs in the      *)
(*                        object's own enumeration (insertion) order       *)
(***************************************************************************)
EXTENDS Integers, Sequences, FiniteSets, TLC

(***************************************************************************)
(* Bounds of the model.                                                    *)
(***************************************************************************)
NInv == 2          \* concurrent invocations of wrapped handlers

(***************************************************************************)
(* Strings.                                                                *)
(***************************************************************************)
Bar == <<"|">>
Colon == <<":">>
StrNull == <<"n", "u", "l", "l">>
StrUndefined == <<"u", "n", "d", "e", "f", "i", "n", "e", "d">>
StrTrue == <<"t", "r", "u", "e">>
StrFalse == <<"f", "a", "l", "s", "e">>

\* Array.prototype.join
RECURSIVE Join(_, _)
Join(parts, sep) ==
    IF Len(parts) = 0 THEN <<>>
    ELSE IF Len(parts) = 1 THEN parts[1]
    ELSE parts[1] \o sep \o Join(Tail(parts), sep)

\* String.prototype.startsWith
StartsWith(s, p) == Len(s) >= Len(p) /\ SubSeq(s, 1, Len(p)) = p

\* String.prototype.slice(n)
Slice(s, n) == SubSeq(s, n + 1, Len(s))

\* String.prototype.substring(0, n)
Substring0(s, n) == SubSeq(s, 1, IF n < Len(s) THEN n ELSE Len(s))

(***************************************************************************)
(* Values.                                                                 *)
(***************************************************************************)
Undefined == [t |-> "undef", v |-> <<>>]
Null == [t |-> "null", v |-> <<>>]
Num(s) == [t |-> "num", v |-> s]
Str(s) == [t |-> "str", v |-> s]
Bool(b) == [t |-> "bool", v |-> IF b THEN StrTrue ELSE StrFalse]
Arr(es) == [t |-> "arr", v |-> es]
Obj(ps) == [t |-> "obj", v |-> ps]

\* x != null, x == null (loose comparison: undefined == null)
IsNullish(x) == x.t \in {"undef", "null"}

\* ToBoolean, as used by `if (x)` and `a || b`
Truthy(x) ==
    CASE x.t \in {"undef", "null"} -> FALSE
      [] x.t = "num" -> x.v \notin {<<"0">>, <<"N", "a", "N">>}
      [] x.t = "str" -> x.v # <<>>
      [] x.t = "bool" -> x.v = StrTrue
      [] OTHER -> TRUE

\* lodash _.isObject (no function values are modelled), and Array.isArray
IsObject(x) == x.t \in {"obj", "arr"}
IsArray(x) == x.t = "arr"

\* ToString of a primitive, as applied by `string + val`
ToStr(x) ==
    CASE x.t = "undef" -> StrUndefined
      [] x.t = "null" -> StrNull
      [] OTHER -> x.v

(***************************************************************************)
(* The cacher's options (constructor, lines 26-32).  A keygen of Null is   *)
(* "no key generator configured"; UserKeygen stands for a function value.  *)
(***************************************************************************)
VARIABLE opts

DefaultMaxKeyLength == 44
HashLength == 44
UserKeygen == [t |-> "fn", v |-> <<>>]
IsFunction(x) == x.t = "fn"

(***************************************************************************)
(* lodash _.get(object, path) for paths without brackets.                  *)
(***************************************************************************)
Digits == <<"0", "1", "2", "3", "4", "5", "6", "7", "8", "9">>
IsIndex(k) == Len(k) = 1 /\ \E d \in DOMAIN Digits : Digits[d] = k[1]
IndexOf(k) == CHOOSE d \in DOMAIN Digits : Digits[d] = k[1]

\* `k in Object(x)` for own properties
HasProp(x, k) ==
    CASE x.t = "obj" -> \E i \in DOMAIN x.v : x.v[i][1] = k
      [] x.t = "arr" -> IsIndex(k) /\ IndexOf(k) <= Len(x.v)
      [] OTHER -> FALSE

\* x[k]; properties of primitives and inherited ones are not modelled
Prop(x, k) ==
    IF ~HasProp(x, k) THEN Undefined
    ELSE IF x.t = "obj" THEN x.v[CHOOSE i \in DOMAIN x.v : x.v[i][1] = k][2]
    ELSE x.v[IndexOf(k)]

\* stringToPath: the segments between the dots
RECURSIVE SplitDots(_, _)
SplitDots(s, cur) ==
    IF s = <<>> THEN <<cur>>
    ELSE IF Head(s) = "." THEN <<cur>> \o SplitDots(Tail(s), <<>>)
    ELSE SplitDots(Tail(s), Append(cur, Head(s)))

\* isKey: a path without a dot, or one that names a property of the object
IsKey(path, object) ==
    \/ \A i \in DOMAIN path : path[i] # "."
    \/ (~IsNullish(object) /\ HasProp(object, path))

CastPath(path, object) ==
    IF IsKey(path, object) THEN <<path>> ELSE SplitDots(path, <<>>)

\* baseGet: walk the segments while the object is not nullish
RECURSIVE BaseGet(_, _)
BaseGet(object, segs) ==
    IF segs = <<>> THEN object
    ELSE IF IsNullish(object) THEN Undefined
    ELSE BaseGet(Prop(object, Head(segs)), Tail(segs))

Get(object, path) ==
    IF IsNullish(object) THEN Undefined
    ELSE BaseGet(object, CastPath(path, object))

(***************************************************************************)
(* Key derivation.                                                         *)
(***************************************************************************)
\* getParamMetaValue, lines 129-134
getParamMetaValue(key, params, meta) ==
    IF StartsWith(key, <<"#">>) /\ ~IsNullish(meta)
    THEN Get(meta, Slice(key, 1))
    ELSE IF ~IsNullish(params)
    THEN Get(params, key)
    ELSE Undefined

\* _generateKeyFromObject, lines 186-198
RECURSIVE _generateKeyFromObject(_)
_generateKeyFromObject(obj) ==
    IF IsArray(obj)
    THEN Join([i \in DOMAIN obj.v |-> _generateKeyFromObject(obj.v[i])], Bar)
    ELSE IF IsObject(obj)
    THEN Join([i \in DOMAIN obj.v |->
                 Join(<<obj.v[i][1], _generateKeyFromObject(obj.v[i][2])>>, Bar)],
              Bar)
    ELSE IF ~IsNullish(obj)
    THEN obj.v
    ELSE StrNull

\* The characters of a string as one TLC string
RECURSIVE Flat(_)
Flat(s) == IF s = <<>> THEN "" ELSE Head(s) \o Flat(Tail(s))

\* crypto.createHash("sha256").update(key).digest("base64"): 44 characters.
\* The digest is idealised as collision free: its first character stands
\* for the digest of exactly this key, the rest is padding.
Sha256Base64(key) ==
    [i \in 1..HashLength |-> IF i = 1 THEN "sha256:" \o Flat(key) ELSE "="]

\* Variant: the prefix kept before the digest is maxKeyLength characters
_hashObj_fullPrefix(obj) ==
    LET maxKeyLength == IF opts.maxKeyLength = 0 THEN DefaultMaxKeyLength
                        ELSE opts.maxKeyLength
        key == _generateKeyFromObject(obj)
        base64Hash == Sha256Base64(key)
    IN  IF maxKeyLength < HashLength \/ Len(key) <= maxKeyLength THEN key
        ELSE Substring0(key, maxKeyLength) \o base64Hash

\* _hashObj, lines 170-184
_hashObj(obj) ==
    LET maxKeyLength == IF opts.maxKeyLength = 0 THEN DefaultMaxKeyLength
                        ELSE opts.maxKeyLength
        key == _generateKeyFromObject(obj)
        prefixLength == maxKeyLength - HashLength
        base64Hash == Sha256Base64(key)
    IN  IF maxKeyLength < HashLength \/ Len(key) <= maxKeyLength THEN key
        ELSE IF prefixLength < 1 THEN base64Hash
        ELSE Substring0(key, prefixLength) \o base64Hash

\* keys.reduce(...) of lines 157-160, from index i on
RECURSIVE ReduceKeys(_, _, _, _, _)
ReduceKeys(a, keys, i, params, meta) ==
    IF i > Len(keys) THEN a
    ELSE LET val == getParamMetaValue(keys[i], params, meta)
         IN  ReduceKeys(a \o (IF i > 1 THEN Bar ELSE <<>>)
                          \o (IF IsObject(val) \/ IsArray(val)
                              THEN _hashObj(val) ELSE ToStr(val)),
                        keys, i + 1, params, meta)

\* Variant: an empty selector list is taken as no selector list
\* (`if (keys && keys.length)`)
defaultKeygen_emptyAsNone(actionName, params, meta, keys) ==
    LET keyPrefix == actionName \o Colon
    IN  IF Truthy(params) \/ Truthy(meta)
        THEN IF Truthy(keys) /\ Len(keys.v) # 0
             THEN IF Len(keys.v) = 1
                  THEN LET val == getParamMetaValue(keys.v[1], params, meta)
                       IN  keyPrefix \o (IF IsObject(val) THEN _hashObj(val)
                                         ELSE ToStr(val))
                  ELSE ReduceKeys(keyPrefix, keys.v, 1, params, meta)
             ELSE keyPrefix \o _hashObj(params)
        ELSE actionName

\* Variant: the selector list is ignored and the whole params are hashed
defaultKeygen_ignoreKeys(actionName, params, meta, keys) ==
    IF Truthy(params) \/ Truthy(meta)
    THEN actionName \o Colon \o _hashObj(params)
    ELSE actionName

\* defaultKeygen, lines 146-168.  keys is Null or Arr of selector strings.
defaultKeygen(actionName, params, meta, keys) ==
    LET keyPrefix == actionName \o Colon
    IN  IF Truthy(params) \/ Truthy(meta)
        THEN IF Truthy(keys)
             THEN IF Len(keys.v) = 1
                  THEN LET val == getParamMetaValue(keys.v[1], params, meta)
                       IN  keyPrefix \o (IF IsObject(val) THEN _hashObj(val)
                                         ELSE ToStr(val))
                  ELSE IF Len(keys.v) > 0
                  THEN ReduceKeys(keyPrefix, keys.v, 1, params, meta)
                  ELSE actionName
             ELSE keyPrefix \o _hashObj(params)
        ELSE actionName

\* A key-generation function supplied by the user (opts.keygen): this one
\* writes out each of its four arguments.
CustomKeygen(actionName, params, meta, keys) ==
    <<"K", "!">> \o actionName
        \o <<"!">> \o _generateKeyFromObject(params)
        \o <<"!">> \o _generateKeyFromObject(meta)
        \o <<"!">> \o (IF IsArray(keys) THEN Join(keys.v, <<",">>) ELSE ToStr(keys))

KeygenArgs(actionName, params, meta, keys) ==
    [actionName |-> actionName, params |-> params, meta |-> meta, keys |-> keys]

\* Variant: the configured key generator is ignored
getCacheKeyRun_defaultOnly(actionName, params, meta, keys) ==
    [key |-> defaultKeygen(actionName, params, meta, keys),
     custom |-> <<>>, default |-> 1]

\* One run of getCacheKey, lines 210-215: the key it returns, the argument
\* lists it called opts.keygen with and the number of its calls of
\* defaultKeygen
getCacheKeyRun(actionName, params, meta, keys) ==
    IF IsFunction(opts.keygen)
    THEN [key |-> CustomKeygen(actionName, params, meta, keys),
          custom |-> <<KeygenArgs(actionName, params, meta, keys)>>,
          default |-> 0]
    ELSE [key |-> defaultKeygen(actionName, params, meta, keys),
          custom |-> <<>>, default |-> 1]

\* getCacheKey, lines 210-215
getCacheKey(actionName, params, meta, keys) ==
    getCacheKeyRun(actionName, params, meta, keys).key

(***************************************************************************)
(* Calls of the key functions on their own.  karg holds the arguments of   *)
(* two calls that share the action name and the selector list; kres holds  *)
(* what the calls returned.                                                *)
(***************************************************************************)
VARIABLES karg, kres

MaxKeys == 2       \* longest selector list

Ka == <<"a">>
Kb == <<"b">>
Kc == <<"c">>
Kd == <<"d">>
KHashA == <<"#", "a">>
KaDotC == <<"a", ".", "c">>
N1 == Num(<<"1">>)
N2 == Num(<<"2">>)
N5 == Num(<<"5">>)
N9 == Num(<<"9">>)

Selectors == {Ka, Kb, KHashA, KaDotC}

KeyLists ==
    {Null} \cup
    { Arr(l) : l \in UNION { [1..n -> Selectors] : n \in 0..MaxKeys } }

KParams ==
    { Null,
      Obj(<<>>),
      Obj(<< <<Ka, N5>>, <<Kb, Str(<<"x">>)>> >>),
      Obj(<< <<Kb, Str(<<"x">>)>>, <<Ka, N5>> >>),
      Obj(<< <<Ka, Obj(<< <<Kc, N1>>, <<Kd, N2>> >>)>> >>),
      Obj(<< <<Ka, Obj(<< <<Kd, N2>>, <<Kc, N1>> >>)>> >>),
      Obj(<< <<KHashA, N1>>, <<Ka, N5>> >>),
      Obj(<< <<Ka, Arr(<<N1, N2>>)>>, <<Kb, Null>> >>),
      Obj(<< <<Ka, Str(<<"5">>)>> >>),
      Obj(<< <<Ka, Arr([i \in 1..23 |-> N1])>> >>) }

KMetas ==
    { Null,
      Obj(<<>>),
      Obj(<< <<Ka, N9>> >>) }

NoKeyResult == [phase |-> "init", key1 |-> <<>>, key2 |-> <<>>,
                sel |-> <<>>, field |-> Undefined, hash |-> <<>>]

\* Arguments of _hashObj: values whose string is up to MaxStrLen long, and
\* configured maxKeyLength options up to MaxConfigured
MaxStrLen == 47
MaxConfigured == 47

HStr(n) == Str([i \in 1..n |-> Digits[(i % 10) + 1]])

HValues ==
    { HStr(n) : n \in 0..MaxStrLen } \cup
    { Arr([i \in 1..m |-> N1]) : m \in 21..24 } \cup
    { Null, Obj(<< <<Ka, HStr(44)>> >>) }

MaxKeyLengths == (-1)..MaxConfigured

(***************************************************************************)
(* The middleware (lines 222-247) and the storage backend it calls.        *)
(*                                                                         *)
(* backend says which storage operations a concrete backend supplies; the  *)
(* others are those of the abstract base (lines 75-117), which throw.      *)
(* store is the content of a concrete backend: key -> [value, ttl].        *)
(* Per invocation i of a wrapped handler:                                  *)
(*   pc[i]            its position: idle, get, handler, done               *)
(*   act[i]           the action descriptor                                *)
(*   ctx0[i], ctx[i]  the context as the caller passed it, and now         *)
(*   cacheKey[i]      the local cacheKey of cacherMiddleware               *)
(*   getState[i]      the promise returned by get                          *)
(*   content[i]       what that promise carries / the callback's content   *)
(*   handlerState[i]  the promise returned by the handler                  *)
(*   result[i]        the callback's result                                *)
(*   setState[i]      the promise returned by set                          *)
(*   calls[i]         the calls the invocation has made, in order          *)
(*   outcome[i]       how the invocation's own promise settled             *)
(*   direct           the last call of a storage operation made on the     *)
(*                    cacher itself, and how it ended                      *)
(*   writer[k]        the invocation whose set wrote the entry under key   *)
(*                    k, 0 for an entry the backend held from the start    *)
(***************************************************************************)
VARIABLES backend, store, pc, act, ctx0, ctx, cacheKey, getState, content,
          handlerState, result, setState, calls, outcome, direct, writer

Invocations == 1..NInv

Err(msg) == [t |-> "err", v |-> msg]
NotImplemented == Err(<<"Not implemented method!">>)
HandlerError == Err(<<"handler failed">>)
BackendFault == Err(<<"backend fault">>)

NameG == <<"g">>
NameL == <<"l">>
Ttl30 == Num(<<"3", "0">>)

\* Action descriptors: cache is absent or [keys, ttl]
Actions ==
    { [name |-> NameG, cache |-> [t |-> "obj", keys |-> Arr(<< <<"i">> >>), ttl |-> Ttl30]],
      [name |-> NameL, cache |-> [t |-> "obj", keys |-> Null, ttl |-> Undefined]],
      [name |-> NameL, cache |-> [t |-> "undef", keys |-> Null, ttl |-> Undefined]] }

\* Contexts a caller passes
Contexts ==
    { [params |-> p, meta |-> Null, cachedResult |-> Bool(FALSE)] :
        p \in {Null, Obj(<< << <<"i">>, Num(<<"5">>) >> >>)} }

\* What a handler resolves with
Results == {Num(<<"1">>), Null, Undefined}

NoCalls == [keygen |-> 0, custom |-> <<>>, default |-> 0, get |-> <<>>,
            handler |-> <<>>, set |-> <<>>]
NoOutcome == [kind |-> "none", value |-> Undefined]
Resolved(x) == [kind |-> "resolved", value |-> x]
Rejected(e) == [kind |-> "rejected", value |-> e]
Thrown(e) == [kind |-> "thrown", value |-> e]

\* The storage operations, and which of them a backend class supplies: all
\* of them, all but set, or none (the abstract base itself)
StorageOps == {"get", "set", "del", "clean"}
Concrete == [op \in StorageOps |-> TRUE]
Backends == { Concrete,
              [Concrete EXCEPT !["set"] = FALSE],
              [op \in StorageOps |-> FALSE] }

\* Variant: an operation of the abstract base returns a promise of null
Abstract_resolveNull(op) == Resolved(Null)

\* get, set, del and clean of the abstract base, lines 75-117: each throws
\* at the call
Abstract(op) == Thrown(NotImplemented)

NoDirect == [op |-> "none", outcome |-> NoOutcome]

\* Variant: the factory wraps every action, configured for caching or not
Wrapped_always(a) == "cacherMiddleware"

\* The function the middleware factory returns for an action, lines 223-246
Wrapped(a) == IF Truthy(a.cache) THEN "cacherMiddleware" ELSE "handler"

\* Variant: the test `if (content)`
IsHit_truthy(c) == Truthy(c)

\* Variant: the test `content !== undefined`
IsHit_defined(c) == c.t # "undef"

\* The test of line 228: content != null
IsHit(c) == ~IsNullish(c)

\* A concrete backend's get: the stored content, or null
Lookup(key) == IF key \in DOMAIN store THEN store[key].value ELSE Null

Put(key, value, ttl) ==
    [k \in DOMAIN store \cup {key} |->
        IF k = key THEN [value |-> value, ttl |-> ttl] ELSE store[k]]

mvars == <<backend, store, pc, act, ctx0, ctx, cacheKey, getState, content,
           handlerState, result, setState, calls, outcome, direct, writer>>

\* What a backend holds at the start: nothing, or an entry under a key of
\* the default key generator
EmptyStore == [k \in {} |-> [value |-> Null, ttl |-> Undefined]]
Stored ==
    [k \in {<<"g", ":", "5">>, <<"l">>} |->
        IF k = <<"l">> THEN [value |-> Str(<<>>), ttl |-> Undefined]
                       ELSE [value |-> Num(<<"0">>), ttl |-> Ttl30]]
InitialStores == {EmptyStore, Stored}

\* No handler has been invoked yet
MIdle ==
    /\ pc = [i \in Invocations |-> "idle"]
    /\ act = [i \in Invocations |-> CHOOSE a \in Actions : ~Truthy(a.cache)]
    /\ ctx0 = [i \in Invocations |-> CHOOSE c \in Contexts : IsNullish(c.params)]
    /\ ctx = ctx0
    /\ cacheKey = [i \in Invocations |-> <<>>]
    /\ getState = [i \in Invocations |-> "none"]
    /\ content = [i \in Invocations |-> Undefined]
    /\ handlerState = [i \in Invocations |-> "none"]
    /\ result = [i \in Invocations |-> Undefined]
    /\ setState = [i \in Invocations |-> "none"]
    /\ calls = [i \in Invocations |-> NoCalls]
    /\ outcome = [i \in Invocations |-> NoOutcome]
    /\ direct = NoDirect
    /\ writer = [k \in DOMAIN store |-> 0]

\* The cachers considered: with the default key generator, each backend
\* class with each initial store; with a configured key generator, a
\* concrete backend that holds nothing
MInit ==
    /\ opts \in { [ttl |-> Null, keygen |-> kg, maxKeyLength |-> DefaultMaxKeyLength] :
                    kg \in {Null, UserKeygen} }
    /\ backend \in (IF IsFunction(opts.keygen) THEN {Concrete} ELSE Backends)
    /\ store \in (IF IsFunction(opts.keygen) THEN {EmptyStore} ELSE InitialStores)
    /\ MIdle

\* Invocations are numbered in the order in which they are made.
\* The caller invokes the function the middleware factory returned for the
\* action: the handler itself when the action has no cache configuration,
\* else cacherMiddleware, which computes the key and calls get (lines
\* 226-227).  The abstract get throws at the call; a concrete one reads the
\* entry and returns a promise.
Call(i, a, c) ==
    /\ pc[i] = "idle"
    /\ \A j \in Invocations : j < i => pc[j] # "idle"
    /\ act' = [act EXCEPT ![i] = a]
    /\ ctx0' = [ctx0 EXCEPT ![i] = c]
    /\ ctx' = [ctx EXCEPT ![i] = c]
    /\ IF Wrapped(a) = "handler"
       THEN /\ calls' = [calls EXCEPT ![i].handler = Append(@, c)]
            /\ handlerState' = [handlerState EXCEPT ![i] = "pending"]
            /\ pc' = [pc EXCEPT ![i] = "handler"]
            /\ UNCHANGED <<cacheKey, getState, content, outcome>>
       ELSE LET run == getCacheKeyRun(a.name, c.params, c.meta, a.cache.keys)
                key == run.key
            IN  /\ cacheKey' = [cacheKey EXCEPT ![i] = key]
                /\ calls' = [calls EXCEPT ![i].keygen = @ + 1,
                                          ![i].custom = @ \o run.custom,
                                          ![i].default = @ + run.default,
                                          ![i].get = Append(@, key)]
                /\ UNCHANGED handlerState
                /\ IF backend["get"]
                   THEN /\ pc' = [pc EXCEPT ![i] = "get"]
                        /\ getState' = [getState EXCEPT ![i] = "pending"]
                        /\ content' = [content EXCEPT ![i] = Lookup(key)]
                        /\ UNCHANGED outcome
                   ELSE /\ pc' = [pc EXCEPT ![i] = "done"]
                        /\ getState' = [getState EXCEPT ![i] = "thrown"]
                        /\ outcome' = [outcome EXCEPT ![i] = Abstract("get")]
                        /\ UNCHANGED content
    /\ UNCHANGED <<opts, backend, store, result, setState, direct, writer,
                   karg, kres>>

\* Variant: on a miss the callback reuses the result another invocation
\* has already computed for the same key, instead of calling the handler
GetResolve_coalesce(i) ==
    /\ pc[i] = "get"
    /\ getState' = [getState EXCEPT ![i] = "resolved"]
    /\ LET done == { j \in Invocations \ {i} :
                       cacheKey[j] = cacheKey[i] /\ handlerState[j] = "resolved" }
       IN  IF IsHit(content[i])
           THEN /\ ctx' = [ctx EXCEPT ![i].cachedResult = Bool(TRUE)]
                /\ outcome' = [outcome EXCEPT ![i] = Resolved(content[i])]
                /\ pc' = [pc EXCEPT ![i] = "done"]
                /\ UNCHANGED <<calls, handlerState>>
           ELSE IF done # {}
           THEN /\ outcome' = [outcome EXCEPT ![i] =
                                 Resolved(result[CHOOSE j \in done : TRUE])]
                /\ pc' = [pc EXCEPT ![i] = "done"]
                /\ UNCHANGED <<ctx, calls, handlerState>>
           ELSE /\ calls' = [calls EXCEPT ![i].handler = Append(@, ctx[i])]
                /\ handlerState' = [handlerState EXCEPT ![i] = "pending"]
                /\ pc' = [pc EXCEPT ![i] = "handler"]
                /\ UNCHANGED <<ctx, outcome>>
    /\ UNCHANGED <<opts, backend, store, act, ctx0, cacheKey, content, result,
                   setState, direct, writer,
                   karg, kres>>

\* The promise of get resolves and the callback of lines 227-241 runs up to
\* the call of the handler.
GetResolve(i) ==
    /\ pc[i] = "get"
    /\ getState' = [getState EXCEPT ![i] = "resolved"]
    /\ IF IsHit(content[i])
       THEN /\ ctx' = [ctx EXCEPT ![i].cachedResult = Bool(TRUE)]
            /\ outcome' = [outcome EXCEPT ![i] = Resolved(content[i])]
            /\ pc' = [pc EXCEPT ![i] = "done"]
            /\ UNCHANGED <<calls, handlerState>>
       ELSE /\ calls' = [calls EXCEPT ![i].handler = Append(@, ctx[i])]
            /\ handlerState' = [handlerState EXCEPT ![i] = "pending"]
            /\ pc' = [pc EXCEPT ![i] = "handler"]
            /\ UNCHANGED <<ctx, outcome>>
    /\ UNCHANGED <<opts, backend, store, act, ctx0, cacheKey, content, result,
                   setState, direct, writer,
                   karg, kres>>

\* The promise of get rejects (a fault of the backend): nothing catches it.
GetReject(i) ==
    /\ pc[i] = "get"
    /\ getState' = [getState EXCEPT ![i] = "rejected"]
    /\ outcome' = [outcome EXCEPT ![i] = Rejected(BackendFault)]
    /\ pc' = [pc EXCEPT ![i] = "done"]
    /\ UNCHANGED <<opts, backend, store, act, ctx0, ctx, cacheKey, content,
                   handlerState, result, setState, calls, direct, writer,
                   karg, kres>>

\* Variant: the callback stores the result under the action's name
HandlerResolve_setByName(i, r) ==
    /\ pc[i] = "handler"
    /\ pc' = [pc EXCEPT ![i] = "done"]
    /\ handlerState' = [handlerState EXCEPT ![i] = "resolved"]
    /\ result' = [result EXCEPT ![i] = r]
    /\ IF Wrapped(act[i]) = "handler"
       THEN /\ outcome' = [outcome EXCEPT ![i] = Resolved(r)]
            /\ UNCHANGED <<calls, setState>>
       ELSE /\ calls' = [calls EXCEPT ![i].set =
                           Append(@, [key |-> act[i].name, value |-> r,
                                      ttl |-> act[i].cache.ttl])]
            /\ IF backend["set"]
               THEN /\ setState' = [setState EXCEPT ![i] = "pending"]
                    /\ outcome' = [outcome EXCEPT ![i] = Resolved(r)]
               ELSE /\ setState' = [setState EXCEPT ![i] = "thrown"]
                    /\ outcome' = [outcome EXCEPT ![i] = Rejected(Abstract("set").value)]
    /\ UNCHANGED <<opts, backend, store, act, ctx0, ctx, cacheKey, getState,
                   content, direct, writer, karg, kres>>

\* The handler's promise resolves with r.  For a cached action the callback
\* of lines 235-240 calls set and returns r; a set that throws at the call
\* throws out of the callback, which rejects the invocation's promise.
HandlerResolve(i, r) ==
    /\ pc[i] = "handler"
    /\ pc' = [pc EXCEPT ![i] = "done"]
    /\ handlerState' = [handlerState EXCEPT ![i] = "resolved"]
    /\ result' = [result EXCEPT ![i] = r]
    /\ IF Wrapped(act[i]) = "handler"
       THEN /\ outcome' = [outcome EXCEPT ![i] = Resolved(r)]
            /\ UNCHANGED <<calls, setState>>
       ELSE /\ calls' = [calls EXCEPT ![i].set =
                           Append(@, [key |-> cacheKey[i], value |-> r,
                                      ttl |-> act[i].cache.ttl])]
            /\ IF backend["set"]
               THEN /\ setState' = [setState EXCEPT ![i] = "pending"]
                    /\ outcome' = [outcome EXCEPT ![i] = Resolved(r)]
               ELSE /\ setState' = [setState EXCEPT ![i] = "thrown"]
                    /\ outcome' = [outcome EXCEPT ![i] = Rejected(Abstract("set").value)]
    /\ UNCHANGED <<opts, backend, store, act, ctx0, ctx, cacheKey, getState,
                   content, direct, writer,
                   karg, kres>>

\* Variant: a failure of the handler of a cached action is passed to set
HandlerReject_cacheError(i) ==
    /\ pc[i] = "handler"
    /\ pc' = [pc EXCEPT ![i] = "done"]
    /\ handlerState' = [handlerState EXCEPT ![i] = "rejected"]
    /\ outcome' = [outcome EXCEPT ![i] = Rejected(HandlerError)]
    /\ IF Wrapped(act[i]) = "handler"
       THEN UNCHANGED calls
       ELSE calls' = [calls EXCEPT ![i].set =
                        Append(@, [key |-> cacheKey[i], value |-> HandlerError,
                                   ttl |-> act[i].cache.ttl])]
    /\ UNCHANGED <<opts, backend, store, act, ctx0, ctx, cacheKey, getState,
                   content, result, setState, direct, writer, karg, kres>>

\* The handler's promise rejects (or the handler throws at the call).
HandlerReject(i) ==
    /\ pc[i] = "handler"
    /\ pc' = [pc EXCEPT ![i] = "done"]
    /\ handlerState' = [handlerState EXCEPT ![i] = "rejected"]
    /\ outcome' = [outcome EXCEPT ![i] = Rejected(HandlerError)]
    /\ UNCHANGED <<opts, backend, store, act, ctx0, ctx, cacheKey, getState,
                   content, result, setState, calls, direct, writer,
                   karg, kres>>

\* A concrete backend completes a pending set: the entry is written.
SetResolve(i) ==
    /\ setState[i] = "pending"
    /\ LET args == calls[i].set[Len(calls[i].set)]
       IN  /\ store' = Put(args.key, args.value, args.ttl)
           /\ writer' = [k \in DOMAIN writer \cup {args.key} |->
                           IF k = args.key THEN i ELSE writer[k]]
    /\ setState' = [setState EXCEPT ![i] = "stored"]
    /\ UNCHANGED <<opts, backend, pc, act, ctx0, ctx, cacheKey, getState,
                   content, handlerState, result, calls, outcome, direct,
                   karg, kres>>

\* A concrete backend fails a pending set: nobody holds its promise.
SetReject(i) ==
    /\ setState[i] = "pending"
    /\ setState' = [setState EXCEPT ![i] = "failed"]
    /\ UNCHANGED <<opts, backend, store, pc, act, ctx0, ctx, cacheKey,
                   getState, content, handlerState, result, calls, outcome,
                   direct, writer,
                   karg, kres>>

\* A storage operation the backend class does not supply is called on the
\* cacher: the inherited method throws.
DirectCall(op) ==
    /\ ~backend[op]
    /\ direct' = [op |-> op, outcome |-> Abstract(op)]
    /\ UNCHANGED <<opts, backend, store, pc, act, ctx0, ctx, cacheKey, getState,
                   content, handlerState, result, setState, calls, outcome,
                   writer, karg, kres>>

KIdleArg == [actionName |-> NameG, params |-> Null, meta |-> Null, keys |-> Null,
             params2 |-> Null, meta2 |-> Null, value |-> Null]

vars == <<opts, backend, store, pc, act, ctx0, ctx, cacheKey, getState,
          content, handlerState, result, setState, calls, outcome, direct,
          writer, karg, kres>>

(***************************************************************************)
(* Specification of the middleware.                                        *)
(***************************************************************************)
Init ==
    /\ MInit
    /\ karg = KIdleArg
    /\ kres = NoKeyResult

Next ==
    \/ \E i \in Invocations, a \in Actions, c \in Contexts : Call(i, a, c)
    \/ \E i \in Invocations : GetResolve(i)
    \/ \E i \in Invocations : GetReject(i)
    \/ \E i \in Invocations, r \in Results : HandlerResolve(i, r)
    \/ \E i \in Invocations : HandlerReject(i)
    \/ \E i \in Invocations : SetResolve(i)
    \/ \E i \in Invocations : SetReject(i)
    \/ \E op \in StorageOps : DirectCall(op)

Spec == Init /\ [][Next]_vars

(***************************************************************************)
(* Specification of the key functions: the default key generator of a      *)
(* cacher with default options, applied to arguments from bounded sets.    *)
(***************************************************************************)
KeyInit ==
    /\ opts = [ttl |-> Null, keygen |-> Null, maxKeyLength |-> DefaultMaxKeyLength]
    /\ backend = Concrete
    /\ store = EmptyStore
    /\ MIdle
    /\ karg \in [actionName : {NameG}, params : KParams, meta : KMetas,
                 keys : KeyLists, params2 : KParams, meta2 : KMetas,
                 value : {Null}]
    /\ kres = NoKeyResult

\* getCacheKey is called with each of the two argument lists
CallGetCacheKey ==
    /\ kres.phase = "init"
    /\ kres' = [kres EXCEPT
                  !.phase = "key",
                  !.key1 = getCacheKey(karg.actionName, karg.params, karg.meta, karg.keys),
                  !.key2 = getCacheKey(karg.actionName, karg.params2, karg.meta2, karg.keys)]
    /\ UNCHANGED <<opts, karg, mvars>>

\* getParamMetaValue is called with a selector and the first params and meta
CallGetParamMetaValue(sel) ==
    /\ kres.phase = "init"
    /\ kres' = [kres EXCEPT
                  !.phase = "field",
                  !.sel = sel,
                  !.field = getParamMetaValue(sel, karg.params, karg.meta)]
    /\ UNCHANGED <<opts, karg, mvars>>

KeyNext ==
    \/ CallGetCacheKey
    \/ \E sel \in Selectors : CallGetParamMetaValue(sel)

KeySpec == KeyInit /\ [][KeyNext]_vars

(***************************************************************************)
(* Specification of _hashObj: cachers configured with each maxKeyLength,   *)
(* applied to values from a bounded set.                                   *)
(***************************************************************************)
HashInit ==
    /\ opts \in { [ttl |-> Null, keygen |-> Null, maxKeyLength |-> n] :
                    n \in MaxKeyLengths }
    /\ backend = Concrete
    /\ store = EmptyStore
    /\ MIdle
    /\ karg \in { [KIdleArg EXCEPT !.value = v] : v \in HValues }
    /\ kres = NoKeyResult

\* _hashObj is called with the value
CallHashObj ==
    /\ kres.phase = "init"
    /\ kres' = [kres EXCEPT !.phase = "hash", !.hash = _hashObj(karg.value)]
    /\ UNCHANGED <<opts, karg, mvars>>

HashNext == CallHashObj

HashSpec == HashInit /\ [][HashNext]_vars

(***************************************************************************)
(* Properties of the middleware, checked under Spec.                       *)
(***************************************************************************)
Cached(i) == Wrapped(act[i]) = "cacherMiddleware" /\ pc[i] # "idle"
Hit(i) == Cached(i) /\ getState[i] = "resolved" /\ ~IsNullish(content[i])
Miss(i) == Cached(i) /\ getState[i] = "resolved" /\ IsNullish(content[i])

\* C1: when get yields non-null content for an invocation of a cached
\* action, the original handler is never invoked for it, ctx.cachedResult
\* is true, the invocation returns exactly that content, and set is not
\* called.
CacheHit ==
    \A i \in Invocations :
        Hit(i) => /\ calls[i].handler = <<>>
                  /\ handlerState[i] = "none"
                  /\ ctx[i].cachedResult = Bool(TRUE)
                  /\ pc[i] = "done"
                  /\ outcome[i] = Resolved(content[i])
                  /\ calls[i].set = <<>>
                  /\ setState[i] = "none"

\* A hit on a stored content that is not null but falsy
CacheHitWitness ==
    \E i \in Invocations :
        /\ Hit(i)
        /\ ~Truthy(content[i])
        /\ outcome[i] = Resolved(content[i])

\* C2: when get yields null and the original handler succeeds with r, the
\* handler was invoked exactly once with the unmodified context, set was
\* invoked exactly once with (the key passed to get, r, the action's ttl),
\* the invocation returns r and ctx.cachedResult is unchanged.
CacheMiss ==
    \A i \in Invocations :
        (Miss(i) /\ handlerState[i] = "resolved") =>
            /\ calls[i].handler = <<ctx0[i]>>
            /\ Len(calls[i].get) = 1
            /\ calls[i].set = <<[key |-> calls[i].get[1], value |-> result[i],
                                 ttl |-> act[i].cache.ttl]>>
            /\ outcome[i] = Resolved(result[i])
            /\ ctx[i] = ctx0[i]

\* C3: on a miss where the handler succeeds with r, a set that fails, at
\* the call or later, leaves the invocation completing with r.
SetFaultNeverFails ==
    \A i \in Invocations :
        (Miss(i) /\ handlerState[i] = "resolved" /\ setState[i] \in {"thrown", "failed"})
            => outcome[i] = Resolved(result[i])

\* C4: no invocation waits for or reuses the result of another: every
\* invocation whose get missed has called the handler itself, once, and
\* once its handler has succeeded it has called set itself, once, and what
\* it returns is its own handler's result.
NoCoalescing ==
    \A i \in Invocations :
        Miss(i) => /\ Len(calls[i].handler) = 1
                   /\ handlerState[i] # "none"
                   /\ handlerState[i] = "resolved" =>
                         /\ Len(calls[i].set) = 1
                         /\ calls[i].set[1].value = result[i]
                         /\ outcome[i].kind = "resolved" => outcome[i].value = result[i]

\* The stampede: all invocations are of the same action with the same key,
\* the backend held no entry for it, every get missed, and the handler and
\* set have been called once per invocation.
StampedeWitness ==
    /\ NInv >= 2
    /\ \A i \in Invocations :
          /\ Miss(i)
          /\ act[i] = act[1]
          /\ cacheKey[i] = cacheKey[1]
          /\ Len(calls[i].handler) = 1
          /\ Len(calls[i].set) = 1
    /\ \E i \in Invocations : setState[i] = "pending"

\* C5: on a miss, once the handler has completed with r the invocation has
\* completed with r, whatever the state of set (pending, or never
\* completing).
FireAndForget ==
    \A i \in Invocations :
        (Miss(i) /\ handlerState[i] = "resolved")
            => (pc[i] = "done" /\ outcome[i] = Resolved(result[i]))

\* C6: for an action without cache configuration the factory returns the
\* handler itself: an invocation calls the handler with the caller's
\* context, makes no getCacheKey, get or set call and leaves
\* ctx.cachedResult alone; it returns what the handler returns.
PassThrough ==
    \A i \in Invocations :
        (~Truthy(act[i].cache) /\ pc[i] # "idle") =>
            /\ Wrapped(act[i]) = "handler"
            /\ calls[i].handler = <<ctx0[i]>>
            /\ calls[i].keygen = 0
            /\ calls[i].get = <<>>
            /\ calls[i].set = <<>>
            /\ getState[i] = "none" /\ setState[i] = "none"
            /\ ctx[i] = ctx0[i]
            /\ handlerState[i] = "resolved" => outcome[i] = Resolved(result[i])
            /\ handlerState[i] = "rejected" => outcome[i] = Rejected(HandlerError)

\* An invocation of an uncached action has returned its handler's result
PassThroughWitness ==
    \E i \in Invocations :
        /\ ~Truthy(act[i].cache)
        /\ pc[i] = "done"
        /\ handlerState[i] = "resolved"
        /\ outcome[i] = Resolved(result[i])

(***************************************************************************)
(* Properties of the key functions, checked under KeySpec.                 *)
(***************************************************************************)
BothAbsent(params, meta) == IsNullish(params) /\ IsNullish(meta)

\* lodash _.isEqual: keyed structures are equal when they hold the same
\* key/value pairs, in whatever order
RECURSIVE DeepEqual(_, _)
DeepEqual(x, y) ==
    IF x.t # y.t THEN FALSE
    ELSE IF x.t = "arr"
    THEN /\ Len(x.v) = Len(y.v)
         /\ \A i \in DOMAIN x.v : DeepEqual(x.v[i], y.v[i])
    ELSE IF x.t = "obj"
    THEN /\ Len(x.v) = Len(y.v)
         /\ \A i \in DOMAIN x.v :
               /\ HasProp(y, x.v[i][1])
               /\ DeepEqual(x.v[i][2], Prop(y, x.v[i][1]))
    ELSE x.v = y.v

\* The field a selector names: in meta for '#...', in params otherwise
SelectedField(sel, params, meta) ==
    IF StartsWith(sel, <<"#">>)
    THEN (IF IsNullish(meta) THEN Undefined ELSE Get(meta, Slice(sel, 1)))
    ELSE (IF IsNullish(params) THEN Undefined ELSE Get(params, sel))

\* C7 as stated: with an empty selector list and params/meta not both
\* absent, defaultKeygen returns what it returns without a selector list,
\* actionName + ":" + boundedHash(params).
EmptySelectorList ==
    (kres.phase = "key" /\ karg.keys = Arr(<<>>)
        /\ ~BothAbsent(karg.params, karg.meta))
      => kres.key1 = karg.actionName \o Colon \o _hashObj(karg.params)

\* C7 amended: with an empty selector list defaultKeygen returns the
\* action name alone, whatever params and meta are; only without a
\* selector list (keys null) does it return actionName + ":" +
\* boundedHash(params) when params/meta are not both absent.
EmptySelectorListAmended ==
    kres.phase = "key" =>
        /\ karg.keys = Arr(<<>>) => kres.key1 = karg.actionName
        /\ (karg.keys = Null /\ ~BothAbsent(karg.params, karg.meta))
              => kres.key1 = karg.actionName \o Colon \o _hashObj(karg.params)

\* An empty selector list with params present gave the bare action name
EmptySelectorListWitness ==
    /\ kres.phase = "key"
    /\ karg.keys = Arr(<<>>)
    /\ ~IsNullish(karg.params)
    /\ karg.params.v # <<>>
    /\ kres.key1 = karg.actionName

\* C8: a selector that starts with '#' is looked up, without the '#', in
\* meta only (undefined when meta is absent); any other selector is looked
\* up in params only (undefined when params is absent).
FieldSelectorResolution ==
    kres.phase = "field" =>
        kres.field = SelectedField(kres.sel, karg.params, karg.meta)

\* Two calls agree on the value of every selected field
SameSelectedFields ==
    \A k \in DOMAIN karg.keys.v :
        DeepEqual(SelectedField(karg.keys.v[k], karg.params, karg.meta),
                  SelectedField(karg.keys.v[k], karg.params2, karg.meta2))

\* Two calls resolve every selector to the same value, keyed structures
\* in the same enumeration order
SameResolvedValues ==
    \A k \in DOMAIN karg.keys.v :
        getParamMetaValue(karg.keys.v[k], karg.params, karg.meta)
          = getParamMetaValue(karg.keys.v[k], karg.params2, karg.meta2)

\* C9 as stated: two calls with the same action name, the same selector
\* list and deep-equal values of every selected field get the same key,
\* whatever else params and meta hold and whether or not they are absent.
KeyDependsOnlyOnSelected ==
    (kres.phase = "key" /\ karg.keys.t = "arr" /\ SameSelectedFields)
        => kres.key1 = kres.key2

\* C9 amended: two calls with the same action name and selector list get
\* the same key when getParamMetaValue resolves every selector to the same
\* value in both and params and meta are both absent in both or in
\* neither; the rest of params and meta does not matter.
KeyFromResolvedValues ==
    (kres.phase = "key" /\ karg.keys.t = "arr" /\ SameResolvedValues
        /\ (BothAbsent(karg.params, karg.meta)
               <=> BothAbsent(karg.params2, karg.meta2)))
      => kres.key1 = kres.key2

\* Params that differ in a field no selector names, and a meta present in
\* one call only, gave one key
KeyFromResolvedValuesWitness ==
    /\ kres.phase = "key"
    /\ karg.keys = Arr(<<Ka>>)
    /\ ~DeepEqual(karg.params, karg.params2)
    /\ IsNullish(karg.meta) /\ ~IsNullish(karg.meta2)
    /\ getParamMetaValue(Ka, karg.params, karg.meta) = N5
    /\ getParamMetaValue(Ka, karg.params2, karg.meta2) = N5
    /\ kres.key1 = kres.key2

\* C10 as stated: two calls of getCacheKey with deep-equal arguments, keyed
\* structures compared by their pairs and not by their enumeration order,
\* yield identical strings.
Determinism ==
    (kres.phase = "key" /\ DeepEqual(karg.params, karg.params2)
        /\ DeepEqual(karg.meta, karg.meta2))
      => kres.key1 = kres.key2

\* C10 amended: two calls with deep-equal arguments yield identical
\* strings when the values that get stringified (the whole params without
\* a selector list, the resolved value of each selector with one)
\* enumerate their keys in the same order in both calls; the enumeration
\* order of the rest of params and meta does not matter.
DeterminismAmended ==
    (kres.phase = "key" /\ DeepEqual(karg.params, karg.params2)
        /\ DeepEqual(karg.meta, karg.meta2)
        /\ (IF karg.keys.t = "arr" THEN SameResolvedValues
            ELSE karg.params = karg.params2))
      => kres.key1 = kres.key2

\* Params that are deep-equal but enumerate their keys differently, under a
\* selector list that selects fields of them, gave one key
DeterminismWitness ==
    /\ kres.phase = "key"
    /\ karg.keys.t = "arr" /\ Len(karg.keys.v) >= 1
    /\ DeepEqual(karg.params, karg.params2)
    /\ karg.params # karg.params2
    /\ DeepEqual(karg.meta, karg.meta2)
    /\ SameResolvedValues
    /\ \A k \in DOMAIN karg.keys.v :
          getParamMetaValue(karg.keys.v[k], karg.params, karg.meta) # Undefined
    /\ kres.key1 = kres.key2

\* The string a field value contributes to the key
Piece(val) == IF IsObject(val) THEN _hashObj(val) ELSE ToStr(val)

\* The values the k-th selector designates in the two calls
Selected1(k) == SelectedField(karg.keys.v[k], karg.params, karg.meta)
Selected2(k) == SelectedField(karg.keys.v[k], karg.params2, karg.meta2)

\* The values the code stringifies for the k-th selector in the two calls
Resolved1(k) == getParamMetaValue(karg.keys.v[k], karg.params, karg.meta)
Resolved2(k) == getParamMetaValue(karg.keys.v[k], karg.params2, karg.meta2)

\* C13: with params and meta both absent defaultKeygen returns the action
\* name alone for every keys; otherwise, for a list of n >= 1 selectors, it
\* returns actionName + ":" + the values of the selected fields in list
\* order joined by "|", a structured value as its boundedHash and any other
\* as its plain string form; one selector gives what this rule gives for
\* n = 1.
SelectorComposition ==
    kres.phase = "key" =>
        /\ BothAbsent(karg.params, karg.meta) => kres.key1 = karg.actionName
        /\ (~BothAbsent(karg.params, karg.meta) /\ karg.keys.t = "arr"
              /\ Len(karg.keys.v) >= 1)
             => kres.key1 = karg.actionName \o Colon
                              \o Join([k \in DOMAIN karg.keys.v |-> Piece(Selected1(k))], Bar)

\* Every value that is stringified for the two keys fits in maxKeyLength
NothingTruncated ==
    IF karg.keys.t = "arr"
    THEN \A k \in DOMAIN karg.keys.v :
            /\ Len(_generateKeyFromObject(Resolved1(k))) <= opts.maxKeyLength
            /\ Len(_generateKeyFromObject(Resolved2(k))) <= opts.maxKeyLength
    ELSE /\ Len(_generateKeyFromObject(karg.params)) <= opts.maxKeyLength
         /\ Len(_generateKeyFromObject(karg.params2)) <= opts.maxKeyLength

\* C14: two calls for the same action and selector list whose selected
\* values differ (without a selector list: whose params differ) get
\* different keys whenever every stringified value fits in maxKeyLength.
DistinctValuesDistinctKeys ==
    (kres.phase = "key" /\ NothingTruncated
        /\ (IF karg.keys.t = "arr"
            THEN \E k \in DOMAIN karg.keys.v : ~DeepEqual(Selected1(k), Selected2(k))
            ELSE ~DeepEqual(karg.params, karg.params2)))
      => kres.key1 # kres.key2

(***************************************************************************)
(* Properties of _hashObj, checked under HashSpec.                         *)
(***************************************************************************)
\* C11: for every value and every configured maxKeyLength below 44, 0
\* included, boundedHash returns stringify(value) unchanged, whatever its
\* length.
HashingDisabledBelow44 ==
    (kres.phase = "hash" /\ opts.maxKeyLength < 44)
        => kres.hash = _generateKeyFromObject(karg.value)

\* C12: for every value and every maxKeyLength >= 44 the result is no
\* longer than maxKeyLength; it is stringify(value) when that fits, and
\* otherwise exactly maxKeyLength long: the first maxKeyLength - 44
\* characters of stringify(value) followed by the 44-character digest.
LengthBound ==
    (kres.phase = "hash" /\ opts.maxKeyLength >= 44) =>
        LET key == _generateKeyFromObject(karg.value)
        IN  /\ Len(kres.hash) <= opts.maxKeyLength
            /\ Len(key) <= opts.maxKeyLength => kres.hash = key
            /\ Len(key) > opts.maxKeyLength =>
                  /\ Len(kres.hash) = opts.maxKeyLength
                  /\ SubSeq(kres.hash, 1, opts.maxKeyLength - 44)
                       = SubSeq(key, 1, opts.maxKeyLength - 44)
                  /\ SubSeq(kres.hash, opts.maxKeyLength - 43, opts.maxKeyLength)
                       = Sha256Base64(key)
                  /\ opts.maxKeyLength = 44 => kres.hash = Sha256Base64(key)

\* A string longer than a maxKeyLength above 44 came back as a prefix and
\* the digest
LengthBoundWitness ==
    /\ kres.phase = "hash"
    /\ opts.maxKeyLength > 44
    /\ Len(_generateKeyFromObject(karg.value)) > opts.maxKeyLength
    /\ Len(kres.hash) = opts.maxKeyLength
    /\ kres.hash[1] = _generateKeyFromObject(karg.value)[1]

(***************************************************************************)
(* Properties of the middleware with a configured key generator, checked   *)
(* under Spec.                                                             *)
(***************************************************************************)
\* C15: with a key-generation function configured, an invocation of a
\* cached action calls getCacheKey once, which calls the function once with
\* (action.name, ctx.params, ctx.meta, action.cache.keys), does not call
\* defaultKeygen and returns the function's result as it is; that result is
\* the key passed to get and, on a miss, to set.
CustomKeyGenerator ==
    \A i \in Invocations :
        (Cached(i) /\ IsFunction(opts.keygen)) =>
            /\ calls[i].keygen = 1
            /\ calls[i].custom = <<KeygenArgs(act[i].name, ctx0[i].params,
                                              ctx0[i].meta, act[i].cache.keys)>>
            /\ calls[i].default = 0
            /\ cacheKey[i] = CustomKeygen(act[i].name, ctx0[i].params,
                                          ctx0[i].meta, act[i].cache.keys)
            /\ calls[i].get = <<cacheKey[i]>>
            /\ \A s \in DOMAIN calls[i].set : calls[i].set[s].key = cacheKey[i]
            /\ (Miss(i) /\ handlerState[i] = "resolved") => Len(calls[i].set) = 1

\* A miss under a configured key generator whose set got the custom key
CustomKeyGeneratorWitness ==
    \E i \in Invocations :
        /\ Miss(i) /\ IsFunction(opts.keygen)
        /\ ~IsNullish(ctx0[i].params)
        /\ Len(calls[i].set) = 1
        /\ calls[i].set[1].key = CustomKeygen(act[i].name, ctx0[i].params,
                                              ctx0[i].meta, act[i].cache.keys)
        /\ calls[i].set[1].key # defaultKeygen(act[i].name, ctx0[i].params,
                                               ctx0[i].meta, act[i].cache.keys)

(***************************************************************************)
(* Properties of the storage operations and of the write path, checked     *)
(* under Spec.                                                             *)
(***************************************************************************)
\* C16: a storage operation called on a cacher whose class does not supply
\* it throws the not-implemented error at the call; an invocation of a
\* cached action on a cacher without get ends with that error thrown by
\* the one call of get, the handler is not invoked, set is not called and
\* ctx is left as it was passed.
AbstractOperationsFault ==
    /\ direct.op # "none" =>
          /\ ~backend[direct.op]
          /\ direct.outcome = Thrown(NotImplemented)
    /\ \A i \in Invocations :
          (Cached(i) /\ ~backend["get"]) =>
              /\ pc[i] = "done"
              /\ outcome[i] = Thrown(NotImplemented)
              /\ calls[i].get = <<cacheKey[i]>>
              /\ getState[i] = "thrown"
              /\ calls[i].handler = <<>> /\ handlerState[i] = "none"
              /\ calls[i].set = <<>>
              /\ ctx[i] = ctx0[i]
              /\ ctx[i].cachedResult = Bool(FALSE)

\* On the abstract base clean has been called and an invocation of a cached
\* action has ended with the fault
AbstractOperationsFaultWitness ==
    /\ \A op \in StorageOps : ~backend[op]
    /\ direct = [op |-> "clean", outcome |-> Thrown(NotImplemented)]
    /\ \E i \in Invocations :
          /\ Cached(i)
          /\ outcome[i] = Thrown(NotImplemented)
          /\ ~IsNullish(ctx0[i].params)

\* Invocation i has written no entry of the backend
WroteNothing(i) == \A k \in DOMAIN writer : writer[k] # i

\* C17: on a miss where the handler fails, the invocation is rejected with
\* the handler's error, set is not called for it, ctx.cachedResult is not
\* set, and no entry of the backend is written by it.
HandlerFailureNotCached ==
    \A i \in Invocations :
        (Miss(i) /\ handlerState[i] = "rejected") =>
            /\ outcome[i] = Rejected(HandlerError)
            /\ calls[i].set = <<>> /\ setState[i] = "none"
            /\ ctx[i] = ctx0[i] /\ ctx[i].cachedResult = Bool(FALSE)
            /\ WroteNothing(i)

\* A miss whose handler failed, on a backend that holds an entry
HandlerFailureNotCachedWitness ==
    \E i \in Invocations :
        /\ Miss(i) /\ handlerState[i] = "rejected"
        /\ pc[i] = "done"
        /\ backend["set"]
        /\ DOMAIN store # {}

\* The arguments of the set an invocation makes for its result
SetArgs(i) == [key |-> cacheKey[i], value |-> result[i], ttl |-> act[i].cache.ttl]

\* Every entry an invocation has written lies under the invocation's own
\* key and holds the result of its handler; every hit has returned the
\* content it read without invoking the handler
PopulateInv ==
    /\ \A k \in DOMAIN writer :
          writer[k] # 0 =>
              LET i == writer[k]
              IN  /\ Miss(i) /\ handlerState[i] = "resolved"
                  /\ cacheKey[i] = k
                  /\ store[k] = [value |-> result[i], ttl |-> act[i].cache.ttl]
    /\ \A i \in Invocations :
          \A s \in DOMAIN calls[i].set :
              handlerState[i] = "resolved" /\ calls[i].set[s] = SetArgs(i)
    /\ \A j \in Invocations :
          Hit(j) => /\ outcome[j] = Resolved(content[j])
                    /\ calls[j].handler = <<>>
                    /\ ctx[j].cachedResult = Bool(TRUE)

\* Invocation j starts in this step, for a cached action, on a backend
\* with get
Starts(j) ==
    /\ pc[j] = "idle" /\ pc'[j] # "idle"
    /\ Wrapped(act'[j]) = "cacherMiddleware"
    /\ backend["get"]

\* An invocation that starts while the entry under its key is the one
\* invocation i wrote for a non-null result reads that result
PopulateStep ==
    \A i, j \in Invocations :
        (Starts(j) /\ cacheKey'[j] \in DOMAIN writer
            /\ writer[cacheKey'[j]] = i /\ ~IsNullish(result[i]))
          => content'[j] = result[i]

\* C18: with a backend whose get returns the value last written, once an
\* invocation with key k has missed, its handler has returned a non-null r
\* and its set has completed, an invocation with key k that starts before
\* any other write to k gets r from get, hence is a hit that returns r
\* without invoking the handler; and every value the middleware writes
\* under a key is the result of a handler invocation whose key it is.
PopulateThenHit == []PopulateInv /\ [][PopulateStep]_vars

\* Invocation j has been served what invocation i stored
PopulateThenHitWitness ==
    \E i, j \in Invocations :
        /\ i # j /\ cacheKey[i] = cacheKey[j]
        /\ Miss(i) /\ setState[i] = "stored" /\ ~IsNullish(result[i])
        /\ writer[cacheKey[j]] = i
        /\ Hit(j) /\ content[j] = result[i]
        /\ outcome[j] = Resolved(result[i])
        /\ calls[j].handler = <<>>

\* A miss calls the handler once and, when the handler has returned, set
\* once with the result, null and undefined included; what is served from
\* the cache is never null or undefined
NullResultsInv ==
    \A i \in Invocations :
        /\ Miss(i) => Len(calls[i].handler) = 1
        /\ (Miss(i) /\ handlerState[i] = "resolved") => calls[i].set = <<SetArgs(i)>>
        /\ (Cached(i) /\ (ctx[i].cachedResult = Bool(TRUE)
                            \/ (pc[i] = "done" /\ calls[i].handler = <<>>
                                  /\ outcome[i].kind = "resolved")))
             => /\ Hit(i)
                /\ outcome[i] = Resolved(content[i])
                /\ ~IsNullish(outcome[i].value)

\* An invocation that starts while the entry under its key holds null or
\* undefined reads content that is not a hit
NullResultsStep ==
    \A j \in Invocations :
        (Starts(j) /\ cacheKey'[j] \in DOMAIN store
            /\ IsNullish(store[cacheKey'[j]].value))
          => (content'[j] = store[cacheKey'[j]].value /\ ~IsHit(content'[j]))

\* C19: on a miss where the handler returns null or undefined, set is
\* still called with that result; with a backend that returns what was
\* stored, a later invocation with the same key reads it, misses again,
\* invokes the handler again and calls set again; every value served from
\* the cache is non-null (false, 0 and the empty string are served).
NullResultsNotServed == []NullResultsInv /\ [][NullResultsStep]_vars

\* Invocation j has read the undefined that invocation i stored, missed,
\* and called the handler and set again
NullResultsNotServedWitness ==
    \E i, j \in Invocations :
        /\ i # j /\ cacheKey[i] = cacheKey[j]
        /\ Miss(i) /\ result[i] = Undefined /\ setState[i] = "stored"
        /\ Miss(j) /\ content[j] = Undefined
        /\ Len(calls[j].handler) = 1
        /\ handlerState[j] = "resolved"
        /\ calls[j].set = <<SetArgs(j)>>

====
